---------------------------- MODULE Spec2Model ----------------------------
(***************************************************************************)
(* A model of the entities service's write coordinator: the /entities      *)
(* router (entities_service/service/routers/entities.py) running against   *)
(* the list-backed MockBackend of tests/service/routers/conftest.py.       *)
(*                                                                         *)
(* Strings are sequences of one-character strings, so that composing and   *)
(* matching identities is computed character by character.  A pydantic     *)
(* VersionedSOFTEntity is a record over Fields whose unset fields are <<>>  *)
(* and whose set fields are <<value>>; a dict (a PATCH payload, a stored    *)
(* document) is a function whose domain is the set of keys it holds.        *)
(***************************************************************************)
EXTENDS Integers, Sequences, FiniteSets, TLC

(***************************************************************************)
(* Bounds of the model.                                                    *)
(***************************************************************************)
\* the store holds at most this many records (Store.create is not issued beyond)
MaxStore == 2
\* longest request batch (documents of a POST/PUT/PATCH, identities of a DELETE body)
MaxBatch == 2

(***************************************************************************)
(* Strings.                                                                *)
(***************************************************************************)
Digits == {"0", "1", "2", "3", "4", "5", "6", "7", "8", "9"}

\* the characters of the model in code point order (what sorted() compares)
CodePoints ==
    << "#", ".", "/", "0", "1", "2", "3", "4", "5", "6", "7", "8", "9", ":", "?",
       "A", "B", "N", "e", "h", "n", "o", "p", "s", "t", "x" >>

Ord(c) == CHOOSE i \in 1..Len(CodePoints) : CodePoints[i] = c

HasPrefix(s, p) == Len(s) >= Len(p) /\ SubSeq(s, 1, Len(p)) = p

RECURSIVE rstrip_slash(_)
\* str.rstrip("/")
rstrip_slash(s) ==
    IF s # <<>> /\ s[Len(s)] = "/" THEN rstrip_slash(SubSeq(s, 1, Len(s) - 1)) ELSE s

\* Python's str < str
StrLess(s, t) ==
    \E k \in 1..(Len(s) + 1) :
        /\ k <= Len(t)
        /\ \A j \in 1..(k - 1) : s[j] = t[j]
        /\ (k = Len(s) + 1 \/ Ord(s[k]) < Ord(t[k]))

RECURSIVE sorted(_)
\* sorted(set of str)
sorted(S) ==
    IF S = {} THEN <<>>
    ELSE LET m == CHOOSE x \in S : \A y \in S \ {x} : StrLess(x, y)
         IN  <<m>> \o sorted(S \ {m})

(***************************************************************************)
(* URI_REGEX: ^(?P<namespace>https?://.+)/(?P<version>\d(?:\.\d+){0,2})/   *)
(*            (?P<name>[^/#?]+)$                                           *)
(***************************************************************************)
SchemeHttp == <<"h", "t", "t", "p", ":", "/", "/">>
SchemeHttps == <<"h", "t", "t", "p", "s", ":", "/", "/">>

\* https?://.+ where "." is any character but a line break
IsNamespace(s) ==
    /\ \/ HasPrefix(s, SchemeHttp) /\ Len(s) > Len(SchemeHttp)
       \/ HasPrefix(s, SchemeHttps) /\ Len(s) > Len(SchemeHttps)
    /\ \A i \in 1..Len(s) : s[i] # "\n"

\* \d+
IsDigits(s) == s # <<>> /\ \A i \in 1..Len(s) : s[i] \in Digits

\* (?:\.\d+){n} for some n <= max
RECURSIVE IsDotGroups(_, _)
IsDotGroups(s, max) ==
    \/ s = <<>>
    \/ /\ max > 0
       /\ s[1] = "."
       /\ \E k \in 2..Len(s) :
            IsDigits(SubSeq(s, 2, k)) /\ IsDotGroups(SubSeq(s, k + 1, Len(s)), max - 1)

\* \d(?:\.\d+){0,1}: a version of at most two groups
IsVersionTwoGroups(s) ==
    /\ s # <<>>
    /\ s[1] \in Digits
    /\ IsDotGroups(SubSeq(s, 2, Len(s)), 1)

\* \d(?:\.\d+){0,2}
IsVersion(s) ==
    /\ s # <<>>
    /\ s[1] \in Digits
    /\ IsDotGroups(SubSeq(s, 2, Len(s)), 2)

\* [^/#?]+
IsName(s) == s # <<>> /\ \A i \in 1..Len(s) : s[i] \notin {"/", "#", "?"}

\* URI_REGEX.match(s) is not None
URI_REGEX_match(s) ==
    \E i \in 1..Len(s), j \in 1..Len(s) :
        /\ i < j
        /\ s[i] = "/"
        /\ s[j] = "/"
        /\ IsNamespace(SubSeq(s, 1, i - 1))
        /\ IsVersion(SubSeq(s, i + 1, j - 1))
        /\ IsName(SubSeq(s, j + 1, Len(s)))

\* the named groups with the "/" that end the namespace stripped from it
URI_REGEX_groups_stripped(s) ==
    LET splits == {p \in (1..Len(s)) \X (1..Len(s)) :
                      /\ p[1] < p[2]
                      /\ s[p[1]] = "/"
                      /\ s[p[2]] = "/"
                      /\ IsNamespace(SubSeq(s, 1, p[1] - 1))
                      /\ IsVersion(SubSeq(s, p[1] + 1, p[2] - 1))
                      /\ IsName(SubSeq(s, p[2] + 1, Len(s)))}
        p == CHOOSE q \in splits : \A r \in splits : r[1] <= q[1]
    IN  [namespace |-> rstrip_slash(SubSeq(s, 1, p[1] - 1)),
         version |-> SubSeq(s, p[1] + 1, p[2] - 1),
         name |-> SubSeq(s, p[2] + 1, Len(s))]

\* the named groups of the match: the regex engine tries the longest namespace
\* first, so the match it reports is the one with the largest i
URI_REGEX_groups(s) ==
    LET splits == {p \in (1..Len(s)) \X (1..Len(s)) :
                      /\ p[1] < p[2]
                      /\ s[p[1]] = "/"
                      /\ s[p[2]] = "/"
                      /\ IsNamespace(SubSeq(s, 1, p[1] - 1))
                      /\ IsVersion(SubSeq(s, p[1] + 1, p[2] - 1))
                      /\ IsName(SubSeq(s, p[2] + 1, Len(s)))}
        p == CHOOSE q \in splits : \A r \in splits : r[1] <= q[1]
    IN  [namespace |-> SubSeq(s, 1, p[1] - 1),
         version |-> SubSeq(s, p[1] + 1, p[2] - 1),
         name |-> SubSeq(s, p[2] + 1, Len(s))]

(***************************************************************************)
(* The identities and documents the requests are drawn from.               *)
(***************************************************************************)
NsX == SchemeHttp \o <<"x">>
I1 == NsX \o <<"/", "1", "/", "A">>
I2 == NsX \o <<"/", "2", "/", "A">>
\* version and name swapped: no identity
Swapped == NsX \o <<"/", "A", "/", "1">>

Identities == {I1, I2}
PathIdentities == {I1, I2, Swapped}

\* http://x/1/AB: I1 is a proper prefix of it
I1B == I1 \o <<"B">>

\* http://x/1.9/A and http://x/1.10/A: as strings, 1.10 sorts before 1.9
I19 == NsX \o <<"/", "1", ".", "9", "/", "A">>

I110 == NsX \o <<"/", "1", ".", "1", "0", "/", "A">>

WideIdentities == {I1, I1B, I19, I110}

\* property definitions of the two dialects
PropsMap == [shape |-> "dict", names |-> <<"p">>]
PropsList == [shape |-> "list", names |-> <<"p">>]

Fields == {"uri", "namespace", "version", "name", "properties"}

\* a VersionedSOFTEntity given by namespace, version and name
Triad(ns, ver, nm, props) ==
    [uri |-> <<>>, namespace |-> <<ns>>, version |-> <<ver>>, name |-> <<nm>>,
     properties |-> <<props>>]

\* a VersionedSOFTEntity given by its uri
ByUri(u, props) ==
    [uri |-> <<u>>, namespace |-> <<>>, version |-> <<>>, name |-> <<>>,
     properties |-> <<props>>]

\* the documents of the requests: two of identity I1 that differ in form and
\* content (one with a trailing "/" on its namespace), one of identity I2
Entities ==
    { Triad(NsX \o <<"/">>, <<"1">>, <<"A">>, PropsMap),
      ByUri(I1, PropsList),
      Triad(NsX, <<"2">>, <<"A">>, PropsMap) }

\* model_dump(exclude_unset=True): the dict of the fields that are set
ModelDump(e) ==
    [f \in {g \in DOMAIN e : e[g] # <<>>} |-> e[f][1]]

\* _prepare_entity: a VersionedSOFTEntity is dumped, a dict is taken as it is
PrepareEntity(e) == IF DOMAIN e = Fields THEN ModelDump(e) ELSE e

EntityDicts == {PrepareEntity(e) : e \in Entities}

\* PATCH payloads that carry no identity of their own
PartialDicts ==
    { [version |-> <<"2">>],
      [name |-> <<"B">>],
      [properties |-> PropsList],
      [namespace |-> NsX] }

PatchDicts == EntityDicts \cup PartialDicts

NoneStr == <<"N", "o", "n", "e">>

\* dict.get(key) as an f-string renders it
GetStr(d, key) == IF key \in DOMAIN d THEN d[key] ELSE NoneStr

\* derive_identity: the uri when the document carries one, else
\* namespace.rstrip("/")/version/name; <<>> when it carries neither
get_uri_dict(d) ==
    IF "uri" \in DOMAIN d THEN d["uri"]
    ELSE IF {"namespace", "version", "name"} \subseteq DOMAIN d
         THEN rstrip_slash(d["namespace"]) \o <<"/">> \o d["version"] \o <<"/">> \o d["name"]
         ELSE <<>>

\* get_uri on a VersionedSOFTEntity or a dict
get_uri(e) == get_uri_dict(PrepareEntity(e))

BoundedSeq(S, n) == UNION {[1..k -> S] : k \in 0..n}

IndexOf(seq, x) == CHOOSE i \in 1..Len(seq) : seq[i] = x /\ \A j \in 1..(i - 1) : seq[j] # x

InSeq(seq, x) == \E i \in 1..Len(seq) : seq[i] = x

RemoveAt(seq, i) == SubSeq(seq, 1, i - 1) \o SubSeq(seq, i + 1, Len(seq))

Map(seq, Op(_)) == [i \in 1..Len(seq) |-> Op(seq[i])]


(***************************************************************************)
(* HTTP status codes of the responses.                                     *)
(***************************************************************************)
HTTP_200_OK == 200
HTTP_201_CREATED == 201
HTTP_204_NO_CONTENT == 204
HTTP_400_BAD_REQUEST == 400
HTTP_404_NOT_FOUND == 404
HTTP_422_UNPROCESSABLE_ENTITY == 422
\* an exception no handler catches (the UnboundLocalError of update_entities)
HTTP_500_INTERNAL_SERVER_ERROR == 500
HTTP_502_BAD_GATEWAY == 502

(***************************************************************************)
(* The Store: MockBackend's two parallel lists, plus the log of the calls  *)
(* the running request has made on it.  A backend state is a record        *)
(* [td, uris, calls]: td is __test_data, uris is __test_data_uris.         *)
(***************************************************************************)
Call(op, ids, docs) == [op |-> op, ids |-> ids, docs |-> docs]

Logged(B, call) == [B EXCEPT !.calls = Append(@, call)]

\* values a handler holds: None, a dict, a list, a str
NoBody == [kind |-> "none", val |-> <<>>]
DictBody(d) == [kind |-> "dict", val |-> <<d>>]
ListBody(l) == [kind |-> "list", val |-> l]
StrBody(s) == [kind |-> "str", val |-> <<s>>]
\* a local variable that was never assigned
Unbound == [kind |-> "unbound", val |-> <<>>]

\* what the environment does to the Store during one request: how create
\* answers, and the identity (if any) on which update and delete raise the
\* backend's write_access_exception
NoFault == [create |-> "ok", failId |-> <<>>]
CreateFaults == {[create |-> m, failId |-> <<>>] : m \in {"ok", "raise", "none", "shape"}}
UpdateFaults == {[create |-> "ok", failId |-> i] : i \in Identities \cup {<<>>}}
Faults == CreateFaults \cup UpdateFaults

\* Backend.__contains__ on an identity
BackendContains(B, identity) == InSeq(B.uris, identity)

\* `identity in entities_backend`, logged
Contains(B, identity) ==
    [B |-> Logged(B, Call("contains", <<identity>>, <<>>)),
     found |-> BackendContains(B, identity)]

\* the calls of a comprehension `... if get_uri(entity) not in entities_backend`
RECURSIVE LoggedContainsAll(_, _)
LoggedContainsAll(B, ids) ==
    IF ids = <<>> THEN B
    ELSE LoggedContainsAll(Logged(B, Call("contains", <<Head(ids)>>, <<>>)), Tail(ids))

\* MockBackend.create
MockCreate(B, entities) ==
    LET prepared == Map(entities, PrepareEntity)
        entity_identities == Map(prepared, get_uri_dict)
    IN  IF prepared = <<>> THEN [B |-> B, ret |-> NoBody]
        ELSE [B |-> [B EXCEPT !.td = @ \o prepared, !.uris = @ \o entity_identities],
              ret |-> IF Len(prepared) > 1 THEN ListBody(prepared)
                      ELSE DictBody(prepared[1])]

\* Store.create as a handler sees it: MockBackend.create, or a backend that
\* fails to write: it stores nothing and raises its write_access_exception,
\* answers None, or answers in the shape that does not mirror the input
StoreCreate(B, entities, fault) ==
    LET B1 == Logged(B, Call("create", Map(entities, get_uri), Map(entities, PrepareEntity)))
        m == MockCreate(B1, entities)
    IN  CASE fault.create = "raise" -> [B |-> B1, raised |-> TRUE, ret |-> Unbound]
          [] fault.create = "none" -> [B |-> B1, raised |-> FALSE, ret |-> NoBody]
          [] fault.create = "shape" ->
                [B |-> B1, raised |-> FALSE,
                 ret |-> IF m.ret.kind = "dict" THEN ListBody(m.ret.val)
                         ELSE IF m.ret.kind = "list" THEN DictBody(m.ret.val[1])
                         ELSE m.ret]
          [] OTHER -> [B |-> m.B, raised |-> FALSE, ret |-> m.ret]

\* MockBackend.read
MockRead(B, entity_identity) ==
    IF InSeq(B.uris, entity_identity)
    THEN DictBody(B.td[IndexOf(B.uris, entity_identity)])
    ELSE NoBody

\* MockBackend.update overwriting the first record of the list, whatever
\* identity it is listed under
MockUpdateFirstRecord(B, entity_identity, entity) ==
    IF ~URI_REGEX_match(entity_identity) THEN [B |-> B, raised |-> TRUE]
    ELSE IF InSeq(B.uris, entity_identity)
         THEN [B |-> [B EXCEPT !.td[1] = PrepareEntity(entity)], raised |-> FALSE]
         ELSE [B |-> B, raised |-> FALSE]

\* MockBackend.update: raises on an identity URI_REGEX rejects, else overwrites
\* the first record listed under the identity with the prepared document
MockUpdate(B, entity_identity, entity) ==
    IF ~URI_REGEX_match(entity_identity) THEN [B |-> B, raised |-> TRUE]
    ELSE IF InSeq(B.uris, entity_identity)
         THEN [B |-> [B EXCEPT !.td[IndexOf(B.uris, entity_identity)] = PrepareEntity(entity)],
               raised |-> FALSE]
         ELSE [B |-> B, raised |-> FALSE]

\* Store.update as a handler sees it
StoreUpdate(B, entity_identity, entity, fault) ==
    LET B1 == Logged(B, Call("update", <<entity_identity>>, <<PrepareEntity(entity)>>))
    IN  IF fault.failId = entity_identity THEN [B |-> B1, raised |-> TRUE]
        ELSE MockUpdate(B1, entity_identity, entity)

RECURSIVE MockDeleteEachPosition(_, _)
\* the loop of MockBackend.delete popping the record at the position the
\* identity has in the list it was given, not in the list of the store
MockDeleteEachPosition(B, identities) ==
    IF identities = <<>> \/ B.td = <<>> THEN B
    ELSE MockDeleteEachPosition([B EXCEPT !.td = Tail(@), !.uris = Tail(@)], Tail(identities))

RECURSIVE MockDeleteEach(_, _)
\* the loop of MockBackend.delete: one record popped per identity that is listed
MockDeleteEach(B, identities) ==
    IF identities = <<>> THEN B
    ELSE LET identity == Head(identities)
             B1 == IF InSeq(B.uris, identity)
                   THEN [B EXCEPT !.td = RemoveAt(@, IndexOf(B.uris, identity)),
                                  !.uris = RemoveAt(@, IndexOf(B.uris, identity))]
                   ELSE B
         IN  MockDeleteEach(B1, Tail(identities))

\* MockBackend.delete
MockDelete(B, entity_identities) ==
    IF \E identity \in entity_identities : ~URI_REGEX_match(identity)
    THEN [B |-> B, raised |-> TRUE]
    ELSE [B |-> MockDeleteEach(B, sorted(entity_identities)), raised |-> FALSE]

\* Store.delete as a handler sees it
StoreDelete(B, entity_identities, fault) ==
    LET B1 == Logged(B, Call("delete", sorted(entity_identities), <<>>))
    IN  IF fault.failId \in entity_identities THEN [B |-> B1, raised |-> TRUE]
        ELSE MockDelete(B1, entity_identities)

\* what a handler leaves behind: the backend and its response
Result(B, status, body) ==
    [td |-> B.td, uris |-> B.uris, calls |-> B.calls, status |-> status, body |-> body]

(***************************************************************************)
(* The bulk handlers of the router.  Each takes the backend as the request  *)
(* finds it (calls empty) and gives the Result it leaves.  A request body   *)
(* that is one document rather than a list arrives with isList FALSE.       *)
(***************************************************************************)
\* the arity test on what Store.create returned
ArityMismatch(entities, created_entities) ==
    \/ created_entities.kind = "none"
    \/ Len(entities) = 1 /\ created_entities.kind = "list"
    \/ Len(entities) > 1 /\ created_entities.kind # "list"

\* POST /entities/ with the test for an empty batch lost
create_entities_unguarded(B, isList, entities, fault) ==
    LET c == StoreCreate(B, entities, fault)
    IN  IF c.raised THEN Result(c.B, HTTP_502_BAD_GATEWAY, NoBody)
        ELSE IF ArityMismatch(entities, c.ret)
             THEN Result(c.B, HTTP_502_BAD_GATEWAY, NoBody)
             ELSE Result(c.B, HTTP_201_CREATED, c.ret)

\* POST /entities/
create_entities(B, isList, entities, fault) ==
    IF isList /\ entities = <<>> THEN Result(B, HTTP_204_NO_CONTENT, NoBody)
    ELSE LET c == StoreCreate(B, entities, fault)
         IN  IF c.raised THEN Result(c.B, HTTP_502_BAD_GATEWAY, NoBody)
             ELSE IF ArityMismatch(entities, c.ret)
                  THEN Result(c.B, HTTP_502_BAD_GATEWAY, NoBody)
                  ELSE Result(c.B, HTTP_201_CREATED, c.ret)

\* new_entities with the membership test lost: every document counts as new
NewEntitiesAll(B, entities) == entities

\* new_entities of update_entities: the documents whose identity the backend lacks
NewEntities(B, entities) ==
    SelectSeq(entities, LAMBDA entity : ~BackendContains(B, get_uri(entity)))

RECURSIVE UpdateExistingContinue(_, _, _, _)
\* the loop of update_entities going on to the next document after an update
\* that raised, and raising at its end
UpdateExistingContinue(B, entities, new_entities, fault) ==
    IF entities = <<>> THEN [B |-> B, raised |-> FALSE]
    ELSE LET entity == Head(entities)
         IN  IF InSeq(new_entities, entity)
             THEN UpdateExistingContinue(B, Tail(entities), new_entities, fault)
             ELSE LET c == Contains(B, get_uri(entity))
                  IN  IF ~c.found
                      THEN UpdateExistingContinue(c.B, Tail(entities), new_entities, fault)
                      ELSE LET u == StoreUpdate(c.B, get_uri(entity), entity, fault)
                               rest == UpdateExistingContinue(u.B, Tail(entities),
                                                              new_entities, fault)
                           IN  [B |-> rest.B, raised |-> u.raised \/ rest.raised]

RECURSIVE UpdateExisting(_, _, _, _)
\* the loop of update_entities over the documents that are not in new_entities
UpdateExisting(B, entities, new_entities, fault) ==
    IF entities = <<>> THEN [B |-> B, raised |-> FALSE]
    ELSE LET entity == Head(entities)
         IN  IF InSeq(new_entities, entity)
             THEN UpdateExisting(B, Tail(entities), new_entities, fault)
             ELSE LET c == Contains(B, get_uri(entity))
                  IN  IF ~c.found
                      THEN UpdateExisting(c.B, Tail(entities), new_entities, fault)
                      ELSE LET u == StoreUpdate(c.B, get_uri(entity), entity, fault)
                           IN  IF u.raised THEN u
                               ELSE UpdateExisting(u.B, Tail(entities), new_entities, fault)

\* PUT /entities/
update_entities(B, isList, entities, fault) ==
    IF isList /\ entities = <<>> THEN Result(B, HTTP_201_CREATED, NoBody)
    ELSE LET new_entities == NewEntities(B, entities)
             B1 == LoggedContainsAll(B, Map(entities, get_uri))
             c == IF new_entities # <<>> THEN StoreCreate(B1, new_entities, fault)
                  ELSE [B |-> B1, raised |-> FALSE, ret |-> Unbound]
         IN  IF c.raised THEN Result(c.B, HTTP_502_BAD_GATEWAY, NoBody)
             ELSE IF c.ret.kind = "unbound"
                  \* `created_entities is None` reads a name that was never bound
                  THEN Result(c.B, HTTP_500_INTERNAL_SERVER_ERROR, NoBody)
             ELSE IF ArityMismatch(new_entities, c.ret)
                  THEN Result(c.B, HTTP_502_BAD_GATEWAY, NoBody)
             ELSE LET u == UpdateExisting(c.B, entities, new_entities, fault)
                  IN  IF u.raised THEN Result(u.B, HTTP_502_BAD_GATEWAY, NoBody)
                      ELSE IF new_entities # <<>>
                           THEN Result(u.B, HTTP_201_CREATED, c.ret)
                           ELSE Result(u.B, HTTP_204_NO_CONTENT, NoBody)

\* non_existing_entities looking at the first document of the batch only
NonExistingFirstOnly(B, entities) ==
    SelectSeq(SubSeq(entities, 1, 1), LAMBDA entity : ~BackendContains(B, get_uri(entity)))

\* non_existing_entities of patch_entities
NonExistingEntities(B, entities) ==
    SelectSeq(entities, LAMBDA entity : ~BackendContains(B, get_uri(entity)))

RECURSIVE PatchEach(_, _, _)
\* the loop of patch_entities
PatchEach(B, entities, fault) ==
    IF entities = <<>> THEN [B |-> B, raised |-> FALSE]
    ELSE LET u == StoreUpdate(B, get_uri(Head(entities)), Head(entities), fault)
         IN  IF u.raised THEN u ELSE PatchEach(u.B, Tail(entities), fault)

\* PATCH /entities/
patch_entities(B, isList, entities, fault) ==
    IF isList /\ entities = <<>> THEN Result(B, HTTP_204_NO_CONTENT, NoBody)
    ELSE LET non_existing_entities == NonExistingEntities(B, entities)
             B1 == LoggedContainsAll(B, Map(entities, get_uri))
         IN  IF non_existing_entities # <<>>
             THEN Result(B1, HTTP_502_BAD_GATEWAY, NoBody)
             ELSE LET u == PatchEach(B1, entities, fault)
                  IN  IF u.raised THEN Result(u.B, HTTP_502_BAD_GATEWAY, NoBody)
                      ELSE Result(u.B, HTTP_204_NO_CONTENT, NoBody)

Range(seq) == {seq[i] : i \in 1..Len(seq)}

\* the identities of a bulk DELETE with the query parameters left out
DeleteIdentitiesBodyOnly(identities_body, identities_query) ==
    IF identities_body.kind = "str" THEN {identities_body.val[1]}
    ELSE IF identities_body.kind = "list" THEN Range(identities_body.val)
    ELSE {}

\* the identities of a bulk DELETE: body (None, a str or a list) and query
\* (None or a list), collected into one set
DeleteIdentities(identities_body, identities_query) ==
    (IF identities_body.kind = "str" THEN {identities_body.val[1]}
     ELSE IF identities_body.kind = "list" THEN Range(identities_body.val)
     ELSE {})
    \cup (IF identities_query.kind = "list" THEN Range(identities_query.val) ELSE {})

\* DELETE /entities/ with the test for an empty identity set lost
delete_entities_unguarded(B, identities_body, identities_query, fault) ==
    LET identities == DeleteIdentities(identities_body, identities_query)
        d == StoreDelete(B, identities, fault)
    IN  IF d.raised THEN Result(d.B, HTTP_502_BAD_GATEWAY, NoBody)
        ELSE Result(d.B, HTTP_200_OK, ListBody(sorted(identities)))

\* DELETE /entities/
delete_entities(B, identities_body, identities_query, fault) ==
    LET identities == DeleteIdentities(identities_body, identities_query)
    IN  IF identities = {} THEN Result(B, HTTP_400_BAD_REQUEST, NoBody)
        ELSE LET d == StoreDelete(B, identities, fault)
             IN  IF d.raised THEN Result(d.B, HTTP_502_BAD_GATEWAY, NoBody)
                 ELSE Result(d.B, HTTP_200_OK, ListBody(sorted(identities)))

(***************************************************************************)
(* The single-entity handlers: /entities/{identity}.  The path identity is  *)
(* a URIStrictType: a string URI_REGEX rejects never reaches the handler.   *)
(***************************************************************************)
\* a path parameter that is a plain str: no validation
URIStrictPlainStr(B, identity, result) == result

\* the validation of a URIStrictType path parameter
URIStrict(B, identity, result) ==
    IF URI_REGEX_match(identity) THEN result
    ELSE Result(B, HTTP_422_UNPROCESSABLE_ENTITY, NoBody)

\* GET /entities/{identity}
get_entity(B, identity) ==
    LET entity == MockRead(B, identity)
        B1 == Logged(B, Call("read", <<identity>>, <<>>))
    IN  URIStrict(B, identity,
            IF entity.kind = "none" THEN Result(B1, HTTP_404_NOT_FOUND, NoBody)
            ELSE Result(B1, HTTP_200_OK, entity))

\* the test of create_entity on what Store.create returned
CreatedMismatch(created_entity, identity) ==
    \/ created_entity.kind # "dict"
    \/ get_uri(created_entity.val[1]) # identity

\* POST /entities/{identity}
create_entity(B, identity, entity, fault) ==
    LET c == StoreCreate(B, <<entity>>, fault)
    IN  URIStrict(B, identity,
            IF c.raised THEN Result(c.B, HTTP_502_BAD_GATEWAY, NoBody)
            ELSE IF CreatedMismatch(c.ret, identity)
                 THEN Result(c.B, HTTP_502_BAD_GATEWAY, NoBody)
                 ELSE Result(c.B, HTTP_201_CREATED, c.ret))

\* the identity test comparing the document's uri field alone, as patch_entity's
\* first disjunct does
IdentityMismatchUriOnly(identity, entity) ==
    entity["uri"] # <<>> /\ entity["uri"][1] # identity

\* the identity test of update_entity
IdentityMismatch(identity, entity) == identity # get_uri(entity)

\* PUT /entities/{identity}
update_entity(B, identity, entity, fault) ==
    URIStrict(B, identity,
        IF IdentityMismatch(identity, entity) THEN Result(B, HTTP_400_BAD_REQUEST, NoBody)
        ELSE LET c == Contains(B, identity)
             IN  IF ~c.found
                 THEN LET r == StoreCreate(c.B, <<entity>>, fault)
                      IN  IF r.raised THEN Result(r.B, HTTP_502_BAD_GATEWAY, NoBody)
                          ELSE Result(r.B, HTTP_201_CREATED, DictBody(PrepareEntity(entity)))
                 ELSE LET u == StoreUpdate(c.B, identity, entity, fault)
                      IN  IF u.raised THEN Result(u.B, HTTP_502_BAD_GATEWAY, NoBody)
                          ELSE Result(u.B, HTTP_204_NO_CONTENT, NoBody))

\* the identity test of patch_entity: on the payload's uri, and on the identity
\* composed from its namespace with whatever version and name it holds
PatchMismatch(identity, entity) ==
    \/ "uri" \in DOMAIN entity /\ entity["uri"] # identity
    \/ /\ "namespace" \in DOMAIN entity
       /\ rstrip_slash(entity["namespace"]) \o <<"/">> \o GetStr(entity, "version")
            \o <<"/">> \o GetStr(entity, "name") # identity

\* PATCH /entities/{identity}
patch_entity(B, identity, entity, fault) ==
    URIStrict(B, identity,
        IF PatchMismatch(identity, entity) THEN Result(B, HTTP_400_BAD_REQUEST, NoBody)
        ELSE LET c == Contains(B, identity)
             IN  IF ~c.found THEN Result(c.B, HTTP_404_NOT_FOUND, NoBody)
                 ELSE LET u == StoreUpdate(c.B, identity, entity, fault)
                      IN  IF u.raised THEN Result(u.B, HTTP_502_BAD_GATEWAY, NoBody)
                          ELSE Result(u.B, HTTP_204_NO_CONTENT, NoBody))

\* the existence test lost: delete_entity deletes whatever it is given, as
\* delete_entities does
DeleteMissingNever(B, identity) == FALSE

\* the existence test of delete_entity
DeleteMissing(B, identity) == ~BackendContains(B, identity)

\* DELETE /entities/{identity}
delete_entity(B, identity, fault) ==
    URIStrict(B, identity,
        LET B1 == Logged(B, Call("contains", <<identity>>, <<>>))
        IN  IF DeleteMissing(B, identity) THEN Result(B1, HTTP_404_NOT_FOUND, NoBody)
            ELSE LET d == StoreDelete(B1, {identity}, fault)
                 IN  IF d.raised THEN Result(d.B, HTTP_502_BAD_GATEWAY, NoBody)
                     ELSE Result(d.B, HTTP_200_OK, StrBody(identity)))

(***************************************************************************)
(* The service as a state machine: one request is handled at a time, from  *)
(* its arrival to its response.  td and uris are the backend's lists;       *)
(* request, response and calls describe the request in hand (phase          *)
(* "replied") together with the lists as it found them, td0 and uris0.      *)
(***************************************************************************)
VARIABLES td, uris, phase, request, response, calls, td0, uris0

vars == <<td, uris, phase, request, response, calls, td0, uris0>>

\* a request: the operation, the path identity, the documents of the body
\* (isList: whether the body was a list), the identities of a DELETE (body and
\* query), and what the environment does to the Store meanwhile
Request(op, identity, isList, entities, identities_body, identities_query, fault) ==
    [op |-> op, identity |-> identity, isList |-> isList, entities |-> entities,
     identities_body |-> identities_body, identities_query |-> identities_query,
     fault |-> fault]

NoRequest == Request("none", <<>>, FALSE, <<>>, NoBody, NoBody, NoFault)

NoResponse == [status |-> 0, body |-> NoBody]

\* the backend as the next request finds it
Backend == [td |-> td, uris |-> uris, calls |-> <<>>]

Init ==
    /\ td = <<>>
    /\ uris = <<>>
    /\ phase = "idle"
    /\ request = NoRequest
    /\ response = NoResponse
    /\ calls = <<>>
    /\ td0 = <<>>
    /\ uris0 = <<>>

\* the request req is handled with result r
Handle(req, r) ==
    /\ phase = "idle"
    /\ Len(r.td) <= MaxStore
    /\ td' = r.td
    /\ uris' = r.uris
    /\ phase' = "replied"
    /\ request' = req
    /\ response' = [status |-> r.status, body |-> r.body]
    /\ calls' = r.calls
    /\ td0' = td
    /\ uris0' = uris

\* bodies of POST and PUT: one document, or a list of documents
Bodies(S) ==
    {[isList |-> TRUE, entities |-> l] : l \in BoundedSeq(S, MaxBatch)}
    \cup {[isList |-> FALSE, entities |-> <<e>>] : e \in S}

CreateEntities ==
    \E b \in Bodies(Entities), fault \in CreateFaults :
        Handle(Request("create_entities", <<>>, b.isList, b.entities, NoBody, NoBody, fault),
               create_entities(Backend, b.isList, b.entities, fault))

UpdateEntities ==
    \E b \in Bodies(Entities), fault \in Faults :
        Handle(Request("update_entities", <<>>, b.isList, b.entities, NoBody, NoBody, fault),
               update_entities(Backend, b.isList, b.entities, fault))

PatchEntities ==
    \E b \in Bodies(EntityDicts), fault \in UpdateFaults :
        Handle(Request("patch_entities", <<>>, b.isList, b.entities, NoBody, NoBody, fault),
               patch_entities(Backend, b.isList, b.entities, fault))

DeleteBodies ==
    {NoBody} \cup {StrBody(i) : i \in Identities}
    \cup {ListBody(l) : l \in BoundedSeq(Identities, MaxBatch)}

\* the `id` query parameters of a bulk DELETE: none, or one
DeleteQueries == {NoBody} \cup {ListBody(<<i>>) : i \in Identities}

DeleteEntities ==
    \E ib \in DeleteBodies, iq \in DeleteQueries, fault \in UpdateFaults :
        Handle(Request("delete_entities", <<>>, FALSE, <<>>, ib, iq, fault),
               delete_entities(Backend, ib, iq, fault))

GetEntity ==
    \E identity \in PathIdentities :
        Handle(Request("get_entity", identity, FALSE, <<>>, NoBody, NoBody, NoFault),
               get_entity(Backend, identity))

CreateEntity ==
    \E identity \in PathIdentities, entity \in Entities, fault \in CreateFaults :
        Handle(Request("create_entity", identity, FALSE, <<entity>>, NoBody, NoBody, fault),
               create_entity(Backend, identity, entity, fault))

UpdateEntity ==
    \E identity \in PathIdentities, entity \in Entities, fault \in Faults :
        Handle(Request("update_entity", identity, FALSE, <<entity>>, NoBody, NoBody, fault),
               update_entity(Backend, identity, entity, fault))

PatchEntity ==
    \E identity \in PathIdentities, entity \in PatchDicts, fault \in UpdateFaults :
        Handle(Request("patch_entity", identity, FALSE, <<entity>>, NoBody, NoBody, fault),
               patch_entity(Backend, identity, entity, fault))

DeleteEntity ==
    \E identity \in PathIdentities, fault \in UpdateFaults :
        Handle(Request("delete_entity", identity, FALSE, <<>>, NoBody, NoBody, fault),
               delete_entity(Backend, identity, fault))

\* the response is sent; the service awaits the next request
Reply ==
    /\ phase = "replied"
    /\ phase' = "idle"
    /\ request' = NoRequest
    /\ response' = NoResponse
    /\ calls' = <<>>
    /\ td0' = <<>>
    /\ uris0' = <<>>
    /\ UNCHANGED <<td, uris>>

Next ==
    \/ CreateEntities
    \/ UpdateEntities
    \/ PatchEntities
    \/ DeleteEntities
    \/ GetEntity
    \/ CreateEntity
    \/ UpdateEntity
    \/ PatchEntity
    \/ DeleteEntity
    \/ Reply

Spec == Init /\ [][Next]_vars

(***************************************************************************)
(* The search: GET /entities/ and MockBackend.search.  The backend starts   *)
(* from the test data it is constructed with; a property or dimension       *)
(* definition is a dict keyed by name (SOFT7), a list of dicts with a       *)
(* "name" (SOFT5), or something else, and `dimensions` may be missing.      *)
(***************************************************************************)
\* longest list of one query parameter (id, prop, dim) of a search
MaxFilter == 2

\* the value of `properties` or `dimensions`: its shape and the names it defines
Definitions(shape, names) == [shape |-> shape, names |-> names]

Box == [uri |-> I1, properties |-> Definitions("dict", <<"p">>),
        dimensions |-> Definitions("dict", <<"n">>)]

Ball == [uri |-> I2, properties |-> Definitions("list", <<"q">>),
         dimensions |-> Definitions("list", <<"n">>)]

\* a document without dimensions
Bare == [uri |-> I1B, properties |-> Definitions("dict", <<"p", "q">>)]

\* a document whose properties are neither a dict nor a list
Odd == [uri |-> I19, properties |-> Definitions("str", <<"p">>),
        dimensions |-> Definitions("dict", <<"n">>)]

backend_test_data == {Box, Ball, Bare, Odd}

\* any(name in entity[field] for name in requested), as the branch of the
\* field's shape computes it; "KeyError" when entity.get(field, {}) passes the
\* test for a dict although the field is missing, and entity[field] is read
FieldMatch(entity, field, requested) ==
    IF field \notin DOMAIN entity THEN "KeyError"
    ELSE IF entity[field].shape = "dict"
         THEN IF \E k \in 1..Len(requested) : requested[k] \in Range(entity[field].names)
              THEN "yes" ELSE "no"
    ELSE IF entity[field].shape = "list"
         THEN IF \E k \in 1..Len(requested) :
                    \E n \in 1..Len(entity[field].names) : entity[field].names[n] = requested[k]
              THEN "yes" ELSE "no"
    ELSE "MockBackendError"

RECURSIVE SearchByField(_, _, _, _)
\* the loop over _test_data of one `if by_...:` block, appending to results
SearchByField(entities, field, requested, results) ==
    IF entities = <<>> THEN [raised |-> "none", results |-> results]
    ELSE LET m == FieldMatch(Head(entities), field, requested)
         IN  IF m \in {"KeyError", "MockBackendError"} THEN [raised |-> m, results |-> results]
             ELSE SearchByField(Tail(entities), field, requested,
                                IF m = "yes" THEN Append(results, Head(entities)) ELSE results)

\* the by_identity block walking the store instead of the requested identities
SearchByIdentityStoreOrder(B, by_identity, results) ==
    results \o SelectSeq(B.td, LAMBDA entity : InSeq(by_identity, get_uri(entity)))

RECURSIVE SearchByIdentity(_, _, _)
\* the by_identity block: for each requested identity, the record listed under it
SearchByIdentity(B, by_identity, results) ==
    IF by_identity = <<>> THEN results
    ELSE SearchByIdentity(B, Tail(by_identity),
            IF InSeq(B.uris, Head(by_identity))
            THEN Append(results, B.td[IndexOf(B.uris, Head(by_identity))])
            ELSE results)

\* MockBackend.search: a filter is None (NoBody) or a list
MockSearch(B, by_properties, by_dimensions, by_identity) ==
    LET r1 == IF by_properties.val # <<>>
              THEN SearchByField(B.td, "properties", by_properties.val, <<>>)
              ELSE [raised |-> "none", results |-> <<>>]
        r2 == IF r1.raised # "none" THEN r1
              ELSE IF by_dimensions.val # <<>>
                   THEN SearchByField(B.td, "dimensions", by_dimensions.val, r1.results)
                   ELSE r1
    IN  IF r2.raised # "none" THEN r2
        ELSE [raised |-> "none",
              results |-> IF by_identity.val # <<>>
                          THEN SearchByIdentity(B, by_identity.val, r2.results)
                          ELSE r2.results]

\* GET /entities/; an error of the search is caught nowhere
get_entities(B, identities, properties, dimensions) ==
    LET s == MockSearch(B, properties, dimensions, identities)
        B1 == Logged(B, Call("search", identities.val, <<>>))
    IN  IF \E k \in 1..Len(identities.val) : ~URI_REGEX_match(identities.val[k])
        THEN Result(B, HTTP_422_UNPROCESSABLE_ENTITY, NoBody)
        ELSE IF s.raised # "none" THEN Result(B1, HTTP_500_INTERNAL_SERVER_ERROR, NoBody)
        ELSE IF s.results # <<>> THEN Result(B1, HTTP_200_OK, ListBody(s.results))
        ELSE Result(B1, HTTP_404_NOT_FOUND, NoBody)

\* a search request: the three query parameters, each None or a list
SearchRequest(identities, properties, dimensions) ==
    [op |-> "get_entities", identity |-> <<>>, isList |-> FALSE, entities |-> <<>>,
     identities_body |-> NoBody, identities_query |-> identities, fault |-> NoFault,
     properties |-> properties, dimensions |-> dimensions]

\* a query parameter: absent, or a list of at least one value
Filters(S) == {NoBody} \cup {ListBody(l) : l \in BoundedSeq(S, MaxFilter) \ {<<>>}}

\* MockBackend.__init__ over the test data of the fixture
SearchInit ==
    /\ td \in BoundedSeq(backend_test_data, MaxStore)
    /\ uris = [i \in 1..Len(td) |-> get_uri(td[i])]
    /\ phase = "idle"
    /\ request = NoRequest
    /\ response = NoResponse
    /\ calls = <<>>
    /\ td0 = <<>>
    /\ uris0 = <<>>

\* the dim parameters: none, a dimension, a name no dimension has, or both
DimensionFilters ==
    {NoBody, ListBody(<<"n">>), ListBody(<<"p">>), ListBody(<<"p", "n">>)}

GetEntities ==
    \E identities \in Filters(Identities), properties \in Filters({"p", "q"}),
       dimensions \in DimensionFilters :
        Handle(SearchRequest(identities, properties, dimensions),
               get_entities(Backend, identities, properties, dimensions))

SearchNext ==
    \/ GetEntities
    \/ Reply

SearchSpec == SearchInit /\ [][SearchNext]_vars

(***************************************************************************)
(* The bulk DELETE over a wider set of identities, whose order as strings   *)
(* differs from their order by length and by version number.  The store is  *)
(* filled by bulk POSTs.                                                    *)
(***************************************************************************)
WideDeleteBodies ==
    {NoBody} \cup {StrBody(i) : i \in WideIdentities}
    \cup {ListBody(l) : l \in BoundedSeq(WideIdentities, MaxBatch)}

WideDeleteQueries == {NoBody} \cup {ListBody(<<i>>) : i \in {I1, I110}}

\* the Store is sound, or it fails on the delete that names I1
WideDeleteFaults == {NoFault, [create |-> "ok", failId |-> I1]}

DeleteEntitiesWide ==
    \E ib \in WideDeleteBodies, iq \in WideDeleteQueries, fault \in WideDeleteFaults :
        Handle(Request("delete_entities", <<>>, FALSE, <<>>, ib, iq, fault),
               delete_entities(Backend, ib, iq, fault))

BulkDeleteNext ==
    \/ CreateEntities
    \/ DeleteEntitiesWide
    \/ Reply

BulkDeleteSpec == Init /\ [][BulkDeleteNext]_vars

(***************************************************************************)
(* The identity parser over candidate strings put together from namespaces, *)
(* versions and names, well-formed and not, in the order                    *)
(* namespace/version/name and in the order namespace/name/version.  Each    *)
(* string is matched against URI_REGEX, and sent as the path identity of    *)
(* the single-entity requests.                                              *)
(***************************************************************************)
CandidateNamespaces ==
    { NsX,                                      \* http://x
      SchemeHttps \o <<"x">>,                   \* https://x
      NsX \o <<"/">>,                           \* http://x/
      NsX \o <<"/", "1">>,                      \* http://x/1
      NsX \o <<"\n">>,                          \* http://x and a line break
      SchemeHttp,                               \* http://
      <<"x">>,                                  \* no scheme
      <<"h", "t", "p", ":", "/", "/", "x">> }   \* htp://x

CandidateVersions ==
    { <<"1">>,
      <<"1", ".", "0">>,
      <<"1", ".", "1", "0", ".", "2">>,
      <<"1", "0">>,
      <<"1", "0", ".", "1">>,
      <<"1", ".", "0", ".", "2", ".", "3">>,
      <<"1", ".">> }

CandidateNames == { <<"A">>, <<"7">>, <<"A", "\n">>, <<"A", "#">>, <<>> }

Candidates ==
    {ns \o <<"/">> \o v \o <<"/">> \o n :
        ns \in CandidateNamespaces, v \in CandidateVersions, n \in CandidateNames}
    \cup {ns \o <<"/">> \o n \o <<"/">> \o v :
        ns \in CandidateNamespaces, v \in CandidateVersions, n \in CandidateNames}

\* URI_REGEX.match(s): None, or the match with its named groups
UriMatch ==
    \E s \in Candidates :
        Handle(Request("URI_REGEX.match", s, FALSE, <<>>, NoBody, NoBody, NoFault),
               Result(Backend, 0,
                      IF URI_REGEX_match(s) THEN DictBody(URI_REGEX_groups(s)) ELSE NoBody))

\* the documents sent along with a candidate identity
CandidateEntity == Triad(NsX, <<"1">>, <<"A">>, PropsMap)

GetEntityCandidate ==
    \E identity \in Candidates :
        Handle(Request("get_entity", identity, FALSE, <<>>, NoBody, NoBody, NoFault),
               get_entity(Backend, identity))

CreateEntityCandidate ==
    \E identity \in Candidates :
        Handle(Request("create_entity", identity, FALSE, <<CandidateEntity>>,
                       NoBody, NoBody, NoFault),
               create_entity(Backend, identity, CandidateEntity, NoFault))

UpdateEntityCandidate ==
    \E identity \in Candidates :
        Handle(Request("update_entity", identity, FALSE, <<CandidateEntity>>,
                       NoBody, NoBody, NoFault),
               update_entity(Backend, identity, CandidateEntity, NoFault))

PatchEntityCandidate ==
    \E identity \in Candidates, entity \in {[name |-> <<"B">>]} :
        Handle(Request("patch_entity", identity, FALSE, <<entity>>, NoBody, NoBody, NoFault),
               patch_entity(Backend, identity, entity, NoFault))

DeleteEntityCandidate ==
    \E identity \in Candidates :
        Handle(Request("delete_entity", identity, FALSE, <<>>, NoBody, NoBody, NoFault),
               delete_entity(Backend, identity, NoFault))

ParserNext ==
    \/ UriMatch
    \/ GetEntityCandidate
    \/ CreateEntityCandidate
    \/ UpdateEntityCandidate
    \/ PatchEntityCandidate
    \/ DeleteEntityCandidate
    \/ Reply

ParserSpec == Init /\ [][ParserNext]_vars

(***************************************************************************)
(* The bulk PUT of longer batches: one request on a backend constructed     *)
(* with test data, so that a batch can hold a new document and two contained *)
(* ones, and the Store can fail on the first or the second update.          *)
(***************************************************************************)
\* longest batch of the bulk PUT
MaxReplaceBatch == 3

\* the records the backend starts with
StoredI1 == [uri |-> I1, properties |-> PropsMap]

StoredI2 == [uri |-> I2, properties |-> PropsList]

\* the documents of the batch: I1 and I2 with other properties than the
\* records have, and a document of a third identity
ReplaceEntities == {ByUri(I1, PropsList), ByUri(I2, PropsMap), ByUri(I1B, PropsMap)}

ReplaceInit ==
    /\ td \in BoundedSeq({StoredI1, StoredI2}, MaxStore)
    /\ uris = [i \in 1..Len(td) |-> get_uri(td[i])]
    /\ phase = "idle"
    /\ request = NoRequest
    /\ response = NoResponse
    /\ calls = <<>>
    /\ td0 = <<>>
    /\ uris0 = <<>>

\* the one request of the backend's life is handled with result r
HandleOnce(req, r) ==
    /\ phase = "idle"
    /\ td' = r.td
    /\ uris' = r.uris
    /\ phase' = "replied"
    /\ request' = req
    /\ response' = [status |-> r.status, body |-> r.body]
    /\ calls' = r.calls
    /\ td0' = td
    /\ uris0' = uris

UpdateEntitiesLong ==
    \E entities \in BoundedSeq(ReplaceEntities, MaxReplaceBatch), fault \in UpdateFaults :
        HandleOnce(Request("update_entities", <<>>, TRUE, entities, NoBody, NoBody, fault),
                   update_entities(Backend, TRUE, entities, fault))

ReplaceSpec == ReplaceInit /\ [][UpdateEntitiesLong]_vars

(***************************************************************************)
(* Two bulk requests on one Store, interleaved between their Store calls:   *)
(* each step of a request runs the handler up to and including its next     *)
(* call on the Store.  The handlers hold no lock and have no transaction.   *)
(* Here request and response are pairs, one entry per request; response[p]  *)
(* is where the handler of request p stands (pc, the loop index k, the list *)
(* its comprehension selected, what create returned, the documents of its   *)
(* batch a create or update took effect for) and, at pc "done", its status  *)
(* and body; calls[p] is the log of its Store calls; td0 and uris0 are the  *)
(* lists the two requests found.                                            *)
(***************************************************************************)
Done(L, status, body) == [L EXCEPT !.pc = "done", !.status = status, !.body = body]

\* the handler before its first Store call
Started(req) ==
    [pc |-> IF req.op \in {"patch_entities", "update_entities"} THEN "check" ELSE "call",
     k |-> 1, selected |-> <<>>, ret |-> Unbound, applied |-> {},
     status |-> 0, body |-> NoBody]

\* patch_entities, one Store call at a time: the membership tests of
\* non_existing_entities (pc "check"), then the updates (pc "update")
PatchStep(B, req, L) ==
    LET entity == req.entities[L.k]
        n == Len(req.entities)
    IN  IF L.pc = "check"
        THEN LET c == Contains(B, get_uri(entity))
                 non_existing_entities ==
                     IF c.found THEN L.selected ELSE Append(L.selected, entity)
                 L1 == [L EXCEPT !.selected = non_existing_entities]
             IN  IF L.k < n THEN [B |-> c.B, L |-> [L1 EXCEPT !.k = @ + 1]]
                 ELSE IF non_existing_entities # <<>>
                      THEN [B |-> c.B, L |-> Done(L1, HTTP_502_BAD_GATEWAY, NoBody)]
                      ELSE [B |-> c.B, L |-> [L1 EXCEPT !.pc = "update", !.k = 1]]
        ELSE LET u == StoreUpdate(B, get_uri(entity), entity, req.fault)
                 L1 == IF ~u.raised /\ BackendContains(B, get_uri(entity))
                       THEN [L EXCEPT !.applied = @ \cup {L.k}] ELSE L
             IN  IF u.raised THEN [B |-> u.B, L |-> Done(L1, HTTP_502_BAD_GATEWAY, NoBody)]
                 ELSE IF L.k < n THEN [B |-> u.B, L |-> [L1 EXCEPT !.k = @ + 1]]
                 ELSE [B |-> u.B, L |-> Done(L1, HTTP_204_NO_CONTENT, NoBody)]

\* the update loop of update_entities moving on from index k to the next
\* document that is not in new_entities, or to the return of the handler
Advance(req, L, k) ==
    LET rest == {j \in k..Len(req.entities) : ~InSeq(L.selected, req.entities[j])}
    IN  IF rest = {} THEN Done(L, HTTP_201_CREATED, L.ret)
        ELSE [L EXCEPT !.pc = "loop", !.k = CHOOSE j \in rest : \A i \in rest : j <= i]

\* update_entities, one Store call at a time: the membership tests of
\* new_entities (pc "check"), the create (pc "create"), then for each other
\* document the membership test (pc "loop") and the update (pc "upd")
UpdateStep(B, req, L) ==
    LET entity == req.entities[L.k]
        n == Len(req.entities)
    IN  CASE L.pc = "check" ->
               LET c == Contains(B, get_uri(entity))
                   new_entities == IF c.found THEN L.selected ELSE Append(L.selected, entity)
                   L1 == [L EXCEPT !.selected = new_entities]
               IN  IF L.k < n THEN [B |-> c.B, L |-> [L1 EXCEPT !.k = @ + 1]]
                   ELSE IF new_entities # <<>>
                        THEN [B |-> c.B, L |-> [L1 EXCEPT !.pc = "create"]]
                        \* created_entities is read unbound
                        ELSE [B |-> c.B,
                              L |-> Done(L1, HTTP_500_INTERNAL_SERVER_ERROR, NoBody)]
          [] L.pc = "create" ->
               LET c == StoreCreate(B, L.selected, req.fault)
                   L1 == [L EXCEPT !.ret = c.ret,
                                   !.applied = {j \in 1..n : InSeq(L.selected, req.entities[j])}]
               IN  IF c.raised \/ ArityMismatch(L.selected, c.ret)
                   THEN [B |-> c.B, L |-> Done(L, HTTP_502_BAD_GATEWAY, NoBody)]
                   ELSE [B |-> c.B, L |-> Advance(req, L1, 1)]
          [] L.pc = "loop" ->
               LET c == Contains(B, get_uri(entity))
               IN  IF c.found THEN [B |-> c.B, L |-> [L EXCEPT !.pc = "upd"]]
                   ELSE [B |-> c.B, L |-> Advance(req, L, L.k + 1)]
          [] OTHER ->
               LET u == StoreUpdate(B, get_uri(entity), entity, req.fault)
                   L1 == IF ~u.raised /\ BackendContains(B, get_uri(entity))
                         THEN [L EXCEPT !.applied = @ \cup {L.k}] ELSE L
               IN  IF u.raised THEN [B |-> u.B, L |-> Done(L1, HTTP_502_BAD_GATEWAY, NoBody)]
                   ELSE [B |-> u.B, L |-> Advance(req, L1, L.k + 1)]

\* the handler returning what its one Store call left: r is its Result
Called(L, r) ==
    [B |-> [td |-> r.td, uris |-> r.uris, calls |-> r.calls],
     L |-> Done(L, r.status, r.body)]

\* create_entities and delete_entities make one Store call
CallStep(B, req, L) ==
    Called(L, IF req.op = "create_entities"
              THEN create_entities(B, req.isList, req.entities, req.fault)
              ELSE delete_entities(B, req.identities_body, req.identities_query, req.fault))

\* the Store and the position of request p after its step r
Taken(p, r) ==
    /\ td' = r.B.td
    /\ uris' = r.B.uris
    /\ calls' = [calls EXCEPT ![p] = r.B.calls]
    /\ response' = [response EXCEPT ![p] = r.L]

\* the handler of req run from position L to its next Store call
HandlerStep(B, req, L) ==
    CASE req.op = "patch_entities" -> PatchStep(B, req, L)
      [] req.op = "update_entities" -> UpdateStep(B, req, L)
      [] OTHER -> CallStep(B, req, L)

\* the next Store call of request p
Step(p) ==
    /\ phase = "concurrent"
    /\ response[p].pc # "done"
    /\ Taken(p, HandlerStep([td |-> td, uris |-> uris, calls |-> calls[p]],
                            request[p], response[p]))
    /\ UNCHANGED <<phase, request, td0, uris0>>

\* the batches of the two requests: documents for PUT and POST, dicts for PATCH
ConcurrentBatches(S) == BoundedSeq(S, MaxBatch) \ {<<>>}

\* a bulk PATCH or PUT
BatchWrites ==
    {Request("patch_entities", <<>>, TRUE, l, NoBody, NoBody, NoFault) :
        l \in ConcurrentBatches({PrepareEntity(e) : e \in ReplaceEntities})}
    \cup {Request("update_entities", <<>>, TRUE, l, NoBody, NoBody, NoFault) :
        l \in ConcurrentBatches(ReplaceEntities)}

\* a bulk DELETE of one or two of the identities the batches name
BatchDeletes ==
    {Request("delete_entities", <<>>, FALSE, <<>>, ListBody(l), NoBody, NoFault) :
        l \in {<<I1>>, <<I2>>, <<I1B>>, <<I1, I2>>}}

\* the stores the two requests may find
StoresFound ==
    {<<>>, <<StoredI1>>, <<StoredI2>>, <<StoredI1, StoredI2>>, <<StoredI2, StoredI1>>}

\* a bulk PATCH or PUT, and a bulk DELETE beside it
RaceInit ==
    /\ td \in StoresFound
    /\ uris = [i \in 1..Len(td) |-> get_uri(td[i])]
    /\ phase = "concurrent"
    /\ request \in BatchWrites \X BatchDeletes
    /\ response = <<Started(request[1]), Started(request[2])>>
    /\ calls = <<<<>>, <<>>>>
    /\ td0 = td
    /\ uris0 = uris

RaceNext == \E p \in {1, 2} : Step(p)

RaceSpec == RaceInit /\ [][RaceNext]_vars

(***************************************************************************)
(* Two bulk writes that name no identity in common, interleaved between     *)
(* their Store calls: the first names I1 and I1B, the second I2.            *)
(***************************************************************************)
\* the bulk writes over the documents S and their identities
BulkWrites(S) ==
    {Request(op, <<>>, TRUE, l, NoBody, NoBody, NoFault) :
        op \in {"create_entities", "update_entities"}, l \in ConcurrentBatches(S)}
    \cup {Request("patch_entities", <<>>, TRUE, l, NoBody, NoBody, NoFault) :
        l \in ConcurrentBatches({PrepareEntity(e) : e \in S})}
    \cup {Request("delete_entities", <<>>, FALSE, <<>>, ListBody(l), NoBody, NoFault) :
        l \in ConcurrentBatches({get_uri(e) : e \in S})}

\* the writes of the second request: one of each kind
WritesOnI2 ==
    { Request("create_entities", <<>>, TRUE, <<ByUri(I2, PropsMap)>>, NoBody, NoBody, NoFault),
      Request("update_entities", <<>>, TRUE,
              <<ByUri(I2, PropsMap), Triad(NsX, <<"2">>, <<"A">>, PropsList)>>,
              NoBody, NoBody, NoFault),
      Request("patch_entities", <<>>, TRUE,
              <<[uri |-> I2, properties |-> PropsMap], [version |-> <<"2">>, uri |-> I2]>>,
              NoBody, NoBody, NoFault),
      Request("delete_entities", <<>>, FALSE, <<>>, ListBody(<<I2>>), NoBody, NoFault) }

DisjointInit ==
    /\ td \in StoresFound
    /\ uris = [i \in 1..Len(td) |-> get_uri(td[i])]
    /\ phase = "concurrent"
    /\ request \in BulkWrites({ByUri(I1, PropsList), ByUri(I1B, PropsMap)}) \X WritesOnI2
    /\ response = <<Started(request[1]), Started(request[2])>>
    /\ calls = <<<<>>, <<>>>>
    /\ td0 = td
    /\ uris0 = uris

DisjointNext == \E p \in {1, 2} : Step(p)

DisjointSpec == DisjointInit /\ [][DisjointNext]_vars

(***************************************************************************)
(* Vocabulary of the properties.                                           *)
(***************************************************************************)
Replied(op) == phase = "replied" /\ request.op = op

\* the calls of the request in hand on one Store operation
CallsOf(op) == SelectSeq(calls, LAMBDA c : c.op = op)

StoreUnchanged == td = td0 /\ uris = uris0

\* the identity was contained in the store when the request arrived
WasContained(identity) == InSeq(uris0, identity)

Success(status) == status \in {HTTP_200_OK, HTTP_201_CREATED, HTTP_204_NO_CONTENT}

\* outcome classes: success, not-found, client error, write failure, crash
OutcomeClass(status) ==
    CASE Success(status) -> "success"
      [] status = HTTP_404_NOT_FOUND -> "not-found"
      [] status \in {HTTP_400_BAD_REQUEST, HTTP_422_UNPROCESSABLE_ENTITY} -> "client error"
      [] status = HTTP_502_BAD_GATEWAY -> "write failure"
      [] OTHER -> "internal error"

(***************************************************************************)
(* C1.  A bulk PUT of a non-empty batch whose identities are all contained  *)
(* in the store, on a Store that raises nothing, updates each of them       *)
(* through Store.update, never calls Store.create and answers 204 No        *)
(* Content.  The code reads created_entities, which only the create branch  *)
(* binds, and ends in an uncaught error before the first update.            *)
(***************************************************************************)
C1_ReplaceAllExistingNoContent ==
    ( /\ Replied("update_entities")
      /\ request.entities # <<>>
      /\ request.fault = NoFault
      /\ \A e \in Range(request.entities) : WasContained(get_uri(e)) )
    => /\ response.status = HTTP_204_NO_CONTENT
       /\ CallsOf("create") = <<>>
       /\ Map(CallsOf("update"), LAMBDA c : c.ids[1]) = Map(request.entities, get_uri)

(***************************************************************************)
(* C2.  A bulk PATCH with at least one document whose identity the store    *)
(* does not contain is rejected, Store.update is called for no document,    *)
(* and every stored record is as it was.                                    *)
(***************************************************************************)
C2_PatchMissingRejectsBatch ==
    ( /\ Replied("patch_entities")
      /\ \E e \in Range(request.entities) : ~WasContained(get_uri(e)) )
    => /\ ~Success(response.status)
       /\ CallsOf("update") = <<>>
       /\ StoreUnchanged

\* a batch of two targets, the first contained and the second not, was rejected
C2_Witness ==
    /\ Replied("patch_entities")
    /\ Len(request.entities) = 2
    /\ WasContained(get_uri(request.entities[1]))
    /\ ~WasContained(get_uri(request.entities[2]))
    /\ response.status = HTTP_502_BAD_GATEWAY
    /\ td # <<>>

(***************************************************************************)
(* C3.  A bulk PUT of two documents, one identity absent from the store and *)
(* one present: Store.create is called once, with the absent one alone;     *)
(* Store.update is called for none but the present one; the answer is       *)
(* never 204 No Content; and when the request succeeds the present one was  *)
(* updated exactly once and the body returned is the new document alone.    *)
(***************************************************************************)
C3_ReplaceOneNewOneExisting ==
    \A n \in 1..2 :
        LET new == request.entities[n]
            old == request.entities[3 - n]
        IN  ( /\ Replied("update_entities")
              /\ Len(request.entities) = 2
              /\ ~WasContained(get_uri(new))
              /\ WasContained(get_uri(old)) )
            => /\ Len(CallsOf("create")) = 1
               /\ CallsOf("create")[1].docs = <<PrepareEntity(new)>>
               /\ \A i \in 1..Len(CallsOf("update")) :
                     CallsOf("update")[i].ids = <<get_uri(old)>>
               /\ response.status # HTTP_204_NO_CONTENT
               /\ Success(response.status) =>
                     /\ response.status = HTTP_201_CREATED
                     /\ response.body = DictBody(PrepareEntity(new))
                     /\ Len(CallsOf("update")) = 1
                     /\ CallsOf("update")[1].docs = <<PrepareEntity(old)>>
                     /\ td[IndexOf(uris, get_uri(old))] = PrepareEntity(old)

\* such a PUT succeeded, and changed the record of the present identity
C3_Witness ==
    /\ Replied("update_entities")
    /\ Len(request.entities) = 2
    /\ ~WasContained(get_uri(request.entities[1]))
    /\ WasContained(get_uri(request.entities[2]))
    /\ response.status = HTTP_201_CREATED
    /\ Len(uris) = Len(uris0) + 1
    /\ td[1] # td0[1]

(***************************************************************************)
(* C4.  Identity is immutable: after a successful PUT or PATCH (single or   *)
(* bulk) every record still derives the identity it is stored under, and a  *)
(* single PATCH of a contained target whose payload holds a namespace, a    *)
(* version or a name other than the target's is answered 400 and leaves the *)
(* store as it was.  patch_entity tests the payload's uri and namespace     *)
(* only: a payload of a version or a name alone reaches Store.update.       *)
(***************************************************************************)
\* the payload holds a namespace, version or name that is not the identity's
ChangesIdentity(identity, entity) ==
    LET g == URI_REGEX_groups(identity)
    IN  \/ "namespace" \in DOMAIN entity /\ rstrip_slash(entity["namespace"]) # g.namespace
        \/ "version" \in DOMAIN entity /\ entity["version"] # g.version
        \/ "name" \in DOMAIN entity /\ entity["name"] # g.name

C4_IdentityImmutable ==
    /\ ( /\ phase = "replied"
         /\ request.op \in {"update_entity", "update_entities", "patch_entity", "patch_entities"}
         /\ request.fault = NoFault
         /\ Success(response.status) )
       => \A i \in 1..Len(td) : get_uri(td[i]) = uris[i]
    /\ ( /\ Replied("patch_entity")
         /\ request.fault = NoFault
         /\ URI_REGEX_match(request.identity)
         /\ WasContained(request.identity)
         /\ ChangesIdentity(request.identity, request.entities[1]) )
       => response.status = HTTP_400_BAD_REQUEST /\ StoreUnchanged

(***************************************************************************)
(* C5.  Whenever a request has called Store.create and the Store answered   *)
(* None or in the shape that does not mirror the input, the request reports *)
(* a write failure (502).  update_entity drops what Store.create returns    *)
(* and answers 201 Created.                                                 *)
(***************************************************************************)
C5_CreateArityFailureReported ==
    ( /\ phase = "replied"
      /\ CallsOf("create") # <<>>
      /\ request.fault.create \in {"none", "shape"} )
    => response.status = HTTP_502_BAD_GATEWAY

(***************************************************************************)
(* C6.  A single PUT whose path identity differs from the identity derived  *)
(* from the document is answered as a client error (400 when the path       *)
(* identity is well-formed) with no Store operation invoked: no contains,   *)
(* create or update, and the store as it was.                               *)
(***************************************************************************)
C6_ReplaceMismatchBeforeStore ==
    ( /\ Replied("update_entity")
      /\ request.identity # get_uri(request.entities[1]) )
    => /\ OutcomeClass(response.status) = "client error"
       /\ URI_REGEX_match(request.identity) => response.status = HTTP_400_BAD_REQUEST
       /\ calls = <<>>
       /\ StoreUnchanged

\* a well-formed path identity that the store lacks, with the document of
\* another identity, given by namespace, version and name
C6_Witness ==
    /\ Replied("update_entity")
    /\ URI_REGEX_match(request.identity)
    /\ request.entities[1]["uri"] = <<>>
    /\ request.identity # get_uri(request.entities[1])
    /\ ~WasContained(request.identity)
    /\ response.status = HTTP_400_BAD_REQUEST

(***************************************************************************)
(* C7.  A single POST or single PATCH (on a Store that does not fail)       *)
(* whose well-formed path identity differs from the identity the document   *)
(* carries (its uri, or its namespace, version and name) is answered 400    *)
(* before any backend call: nothing is created or updated.  create_entity   *)
(* compares the identities only after Store.create has stored the           *)
(* document, and answers 502.                                               *)
(***************************************************************************)
C7_MismatchBeforeBackend ==
    ( /\ phase = "replied"
      /\ request.op \in {"create_entity", "patch_entity"}
      /\ request.fault = NoFault
      /\ URI_REGEX_match(request.identity)
      /\ get_uri(request.entities[1]) # <<>>
      /\ get_uri(request.entities[1]) # request.identity )
    => /\ response.status = HTTP_400_BAD_REQUEST
       /\ calls = <<>>
       /\ StoreUnchanged

(***************************************************************************)
(* C8 as claimed.  A single POST, PATCH or DELETE on a well-formed identity *)
(* with a matching document has the outcome class, and leaves the store,    *)
(* of the bulk operation on the one-element batch, from every store state.  *)
(***************************************************************************)
\* the bulk operation on the one-element batch of the single request in hand
BatchOfOne ==
    LET B == [td |-> td0, uris |-> uris0, calls |-> <<>>]
    IN  CASE request.op = "create_entity" ->
                create_entities(B, TRUE, request.entities, request.fault)
          [] request.op = "patch_entity" ->
                patch_entities(B, TRUE, request.entities, request.fault)
          [] OTHER ->
                delete_entities(B, ListBody(<<request.identity>>), NoBody, request.fault)

\* a single POST, PATCH or DELETE whose document (if any) derives the path identity
SingleWithMatchingDocument ==
    /\ phase = "replied"
    /\ request.op \in {"create_entity", "patch_entity", "delete_entity"}
    /\ URI_REGEX_match(request.identity)
    /\ request.op # "delete_entity" => get_uri(request.entities[1]) = request.identity

SameAsBatchOfOne ==
    /\ OutcomeClass(response.status) = OutcomeClass(BatchOfOne.status)
    /\ td = BatchOfOne.td
    /\ uris = BatchOfOne.uris

C8_SingleAsBatchOfOne == SingleWithMatchingDocument => SameAsBatchOfOne

(***************************************************************************)
(* C8 as amended.  The single POST always agrees with the bulk POST of the  *)
(* one-element batch; the single PATCH and DELETE agree with the bulk form  *)
(* when the identity is contained in the store.  When it is not, the single *)
(* PATCH and DELETE answer 404 while the bulk PATCH reports a write failure *)
(* and the bulk DELETE succeeds (unless the Store raises); none of the four *)
(* changes the store.                                                       *)
(***************************************************************************)
C8_SingleAsBatchOfOneWhenContained ==
    SingleWithMatchingDocument =>
        IF request.op = "create_entity" \/ WasContained(request.identity)
        THEN SameAsBatchOfOne
        ELSE /\ response.status = HTTP_404_NOT_FOUND
             /\ StoreUnchanged
             /\ BatchOfOne.td = td0 /\ BatchOfOne.uris = uris0
             /\ request.op = "patch_entity" => BatchOfOne.status = HTTP_502_BAD_GATEWAY
             /\ (request.op = "delete_entity" /\ request.fault.failId # request.identity)
                   => BatchOfOne.status = HTTP_200_OK

\* a single DELETE of a contained identity removed its record, as the bulk form would
C8_Witness ==
    /\ Replied("delete_entity")
    /\ WasContained(request.identity)
    /\ response.status = HTTP_200_OK
    /\ Len(td) < Len(td0)
    /\ SameAsBatchOfOne

(***************************************************************************)
(* C9.  After a successful create of a single document D, reading D's       *)
(* derived identity returns D (its set fields).  MockBackend.create appends  *)
(* D even when the identity is already listed (the duplicate of C20), and   *)
(* MockBackend.read returns the first record listed under the identity.     *)
(***************************************************************************)
C9_CreateThenRead ==
    ( /\ phase = "replied"
      /\ request.op \in {"create_entity", "create_entities"}
      /\ Len(request.entities) = 1
      /\ response.status = HTTP_201_CREATED )
    => LET r == get_entity([td |-> td, uris |-> uris, calls |-> <<>>],
                           get_uri(request.entities[1]))
       IN  r.status = HTTP_200_OK /\ r.body = DictBody(ModelDump(request.entities[1]))

(***************************************************************************)
(* C10.  After a bulk DELETE that answered 200, the store contains none of  *)
(* the identities it was given.  MockBackend.delete pops one record per     *)
(* identity, so an identity listed twice (the duplicate of C20) remains.    *)
(***************************************************************************)
C10_DeletedAreGone ==
    ( /\ Replied("delete_entities")
      /\ response.status = HTTP_200_OK )
    => \A identity \in DeleteIdentities(request.identities_body, request.identities_query) :
          ~BackendContains([td |-> td, uris |-> uris, calls |-> <<>>], identity)

(***************************************************************************)
(* C11.  A bulk DELETE that names no identity, neither in the body nor in   *)
(* the query, is answered with a client error, which is not the write       *)
(* failure (502); Store.delete is not called, nor any other Store           *)
(* operation, and the store is as it was.                                   *)
(***************************************************************************)
C11_EmptyDeleteRejected ==
    ( /\ Replied("delete_entities")
      /\ request.identities_body.kind \in {"none", "list"}
      /\ request.identities_body.val = <<>>
      /\ request.identities_query.val = <<>> )
    => /\ OutcomeClass(response.status) = "client error"
       /\ response.status # HTTP_502_BAD_GATEWAY
       /\ CallsOf("delete") = <<>>
       /\ calls = <<>>
       /\ StoreUnchanged

\* an empty list of identities was sent to a store that holds a record
C11_Witness ==
    /\ Replied("delete_entities")
    /\ request.identities_body = ListBody(<<>>)
    /\ request.identities_query = NoBody
    /\ td0 # <<>>
    /\ response.status = HTTP_400_BAD_REQUEST

\* the identities a bulk DELETE was given, in the body or in the query
GivenIdentities ==
    {i \in WideIdentities :
        \/ request.identities_body.kind \in {"str", "list"}
              /\ \E k \in 1..Len(request.identities_body.val) :
                     request.identities_body.val[k] = i
        \/ \E k \in 1..Len(request.identities_query.val) :
               request.identities_query.val[k] = i}

(***************************************************************************)
(* C12.  A bulk DELETE that answered 200 returns a list that holds exactly  *)
(* the identities given in the body or in the query, each once, in strictly *)
(* ascending order of Python's string comparison, whether the store         *)
(* contained them or not.                                                   *)
(***************************************************************************)
C12_DeleteReturnsSortedUnion ==
    ( /\ Replied("delete_entities")
      /\ response.status = HTTP_200_OK )
    => LET l == response.body.val
       IN  /\ response.body.kind = "list"
           /\ Range(l) = GivenIdentities
           /\ \A i, j \in 1..Len(l) : i < j => StrLess(l[i], l[j])

\* three identities, one of them named twice and in the query too, one of them
\* contained in the store and the others not, came back in string order
C12_Witness ==
    /\ Replied("delete_entities")
    /\ request.identities_body = ListBody(<<I19, I1B>>)
    /\ request.identities_query = ListBody(<<I110>>)
    /\ uris0 = <<I1>>
    /\ response.status = HTTP_200_OK
    /\ response.body = ListBody(<<I110, I19, I1B>>)

\* an identity named twice in the body and once more in the query came back once
C12_WitnessDuplicates ==
    /\ Replied("delete_entities")
    /\ request.identities_body = ListBody(<<I1, I1>>)
    /\ request.identities_query = ListBody(<<I1>>)
    /\ WasContained(I1)
    /\ response.body = ListBody(<<I1>>)

(***************************************************************************)
(* C13.  A bulk POST of an empty list reports no error, calls no Store      *)
(* operation and leaves the store as it was.                                *)
(***************************************************************************)
C13_EmptyCreateNoOp ==
    ( /\ Replied("create_entities")
      /\ request.isList
      /\ request.entities = <<>> )
    => /\ Success(response.status)
       /\ calls = <<>>
       /\ StoreUnchanged

\* an empty batch was posted to a store that holds a record
C13_Witness ==
    /\ Replied("create_entities")
    /\ request.isList
    /\ request.entities = <<>>
    /\ td0 # <<>>
    /\ response.status = HTTP_204_NO_CONTENT

\* a search that was given none of the three filters
NoFilter ==
    /\ request.identities_query = NoBody
    /\ request.properties = NoBody
    /\ request.dimensions = NoBody

(***************************************************************************)
(* C14.  A search without identity, property or dimension filter returns    *)
(* all documents of the store, so a store that holds a document gives a     *)
(* result that is not empty.  MockBackend.search fills its result in the    *)
(* three `if by_...:` blocks only: without a filter it yields nothing, and  *)
(* get_entities answers 404.                                                *)
(***************************************************************************)
C14_NoFilterReturnsAll ==
    ( /\ Replied("get_entities")
      /\ NoFilter
      /\ td0 # <<>> )
    => /\ response.status = HTTP_200_OK
       /\ response.body = ListBody(td0)

\* the document defines one of the requested names under the field
HasName(entity, field, requested) ==
    /\ field \in DOMAIN entity
    /\ Range(requested) \cap Range(entity[field].names) # {}

\* what the search is to return: the documents with a requested property, then
\* those with a requested dimension, both in store order, then for each
\* requested identity that is listed the document listed under it
ExpectedResult ==
    LET listed == SelectSeq(request.identities_query.val, LAMBDA i : InSeq(uris0, i))
    IN  SelectSeq(td0, LAMBDA e : HasName(e, "properties", request.properties.val))
        \o SelectSeq(td0, LAMBDA e : HasName(e, "dimensions", request.dimensions.val))
        \o [k \in 1..Len(listed) |-> td0[IndexOf(uris0, listed[k])]]

\* the number of filter categories the document matches
Categories(e) ==
    (IF HasName(e, "properties", request.properties.val) THEN 1 ELSE 0)
    + (IF HasName(e, "dimensions", request.dimensions.val) THEN 1 ELSE 0)
    + (IF InSeq(request.identities_query.val, get_uri(e)) THEN 1 ELSE 0)

Occurrences(seq, x) == Cardinality({k \in 1..Len(seq) : seq[k] = x})

\* the result of the search in hand: the list of a 200, nothing for a 404
SearchResult == IF response.status = HTTP_200_OK THEN response.body.val ELSE <<>>

Recognized(e) ==
    /\ "properties" \in DOMAIN e
    /\ e["properties"].shape \in {"dict", "list"}
    /\ "dimensions" \in DOMAIN e => e["dimensions"].shape \in {"dict", "list"}

(***************************************************************************)
(* C16.  A search by property names or dimension names over a store whose   *)
(* documents are all of a recognized dialect does not fail, and a document  *)
(* without `dimensions` is not in the part of the result a dimension filter *)
(* gives.  MockBackend.search tests entity.get("dimensions", {}), finds the *)
(* default a dict and reads entity["dimensions"]: a KeyError.               *)
(***************************************************************************)
C16_SearchNeverFailsOnRecognized ==
    ( /\ Replied("get_entities")
      /\ \A e \in Range(td0) : Recognized(e) )
    => /\ response.status \in {HTTP_200_OK, HTTP_404_NOT_FOUND}
       /\ SearchResult = ExpectedResult

\* the string is p/a/b for a prefix p and segments a and b that meet the tests
ThreeParts(s, IsPrefix(_), IsFirst(_), IsSecond(_)) ==
    \E i \in 1..Len(s), j \in 1..Len(s) :
        /\ i < j
        /\ s[i] = "/"
        /\ s[j] = "/"
        /\ IsPrefix(SubSeq(s, 1, i - 1))
        /\ IsFirst(SubSeq(s, i + 1, j - 1))
        /\ IsSecond(SubSeq(s, j + 1, Len(s)))

\* a namespace that begins with http:// or https://
BeginsWithScheme(ns) == HasPrefix(ns, SchemeHttp) \/ HasPrefix(ns, SchemeHttps)

\* one, two or three groups of decimal digits, none empty, separated by dots
DigitGroups(v) ==
    \/ IsDigits(v)
    \/ \E k \in 1..Len(v) :
          v[k] = "." /\ IsDigits(SubSeq(v, 1, k - 1)) /\ IsDigits(SubSeq(v, k + 1, Len(v)))
    \/ \E k \in 1..Len(v), m \in 1..Len(v) :
          /\ k < m
          /\ v[k] = "." /\ v[m] = "."
          /\ IsDigits(SubSeq(v, 1, k - 1))
          /\ IsDigits(SubSeq(v, k + 1, m - 1))
          /\ IsDigits(SubSeq(v, m + 1, Len(v)))

\* a name that is not empty and holds none of "/", "#", "?"
PlainName(n) == n # <<>> /\ {n[k] : k \in 1..Len(n)} \cap {"/", "#", "?"} = {}

\* the parser accepted the string of the request in hand
Accepted ==
    IF request.op = "URI_REGEX.match" THEN response.body.kind = "dict"
    ELSE response.status # HTTP_422_UNPROCESSABLE_ENTITY

\* the parser rejected it, and the request that carried it was refused
\* without a Store operation
Refused ==
    IF request.op = "URI_REGEX.match" THEN response.body = NoBody
    ELSE /\ response.status = HTTP_422_UNPROCESSABLE_ENTITY
         /\ calls = <<>>
         /\ StoreUnchanged

(***************************************************************************)
(* C17 as stated.  Every string namespace/version/name is accepted whose    *)
(* namespace begins with http:// or https://, whose version is one, two or  *)
(* three dot-separated groups of digits of any length, and whose name is    *)
(* not empty and holds none of "/", "#", "?".  URI_REGEX takes one digit as *)
(* the first group of the version, and wants a character that is no line    *)
(* break after the scheme.                                                  *)
(***************************************************************************)
C17_ParserAcceptsGrammar ==
    ( /\ phase = "replied"
      /\ ThreeParts(request.identity, BeginsWithScheme, DigitGroups, PlainName) )
    => Accepted

\* http:// or https://, then at least one character, none of them a line break
SchemeAndMore(ns) ==
    /\ \E scheme \in {SchemeHttp, SchemeHttps} : HasPrefix(ns, scheme) /\ Len(ns) > Len(scheme)
    /\ "\n" \notin {ns[k] : k \in 1..Len(ns)}

\* digit groups of which the first is one digit
OneDigitThenGroups(v) == DigitGroups(v) /\ (Len(v) = 1 \/ v[2] = ".")

(***************************************************************************)
(* C17, amended.  Every string namespace/version/name is accepted whose     *)
(* namespace is http:// or https:// followed by at least one character and  *)
(* holds no line break, whose version is a single digit followed by at most *)
(* two groups of a dot and digits, and whose name is not empty and holds    *)
(* none of "/", "#", "?".                                                   *)
(***************************************************************************)
C17_ParserAcceptsOneDigitMajor ==
    ( /\ phase = "replied"
      /\ ThreeParts(request.identity, SchemeAndMore, OneDigitThenGroups, PlainName) )
    => Accepted

\* https://x/1.10.2/A with its three version groups was matched
C17_Witness ==
    /\ Replied("URI_REGEX.match")
    /\ request.identity = SchemeHttps \o <<"x", "/", "1", ".", "1", "0", ".", "2", "/", "A">>
    /\ response.body.kind = "dict"
    /\ response.body.val[1].version = <<"1", ".", "1", "0", ".", "2">>

SwappedSegments(s) == ThreeParts(s, SchemeAndMore, PlainName, OneDigitThenGroups)

\* the same, of an identity whose name is not itself of the form of a version
SwappedSegmentsNameNoVersion(s) ==
    ThreeParts(s, SchemeAndMore, LAMBDA n : PlainName(n) /\ ~OneDigitThenGroups(n),
               OneDigitThenGroups)

(***************************************************************************)
(* C19 as stated.  A string namespace/name/version, and a string without    *)
(* http:// or https:// at its start, is rejected by the parser, and the     *)
(* request that carries it as its identity is refused without a Store       *)
(* operation.  A name of the form of a version, swapped with the version,   *)
(* gives an identity again: http://x/7/1 is version 7 of the name "1".      *)
(***************************************************************************)
C19_SwappedOrSchemelessRefused ==
    ( /\ phase = "replied"
      /\ SwappedSegments(request.identity) \/ ~BeginsWithScheme(request.identity) )
    => Refused

(***************************************************************************)
(* C19, amended.  A string namespace/name/version whose name is not of the  *)
(* form of a version, and a string without http:// or https:// at its       *)
(* start, is rejected by the parser, and the request that carries it as its *)
(* identity is answered 422 without a Store operation and without a change  *)
(* of the store.                                                            *)
(***************************************************************************)
C19_MalformedRefused ==
    ( /\ phase = "replied"
      /\ SwappedSegmentsNameNoVersion(request.identity) \/ ~BeginsWithScheme(request.identity) )
    => Refused

\* a DELETE of http://x/A/1 was refused by a store that holds a record
C19_Witness ==
    /\ Replied("delete_entity")
    /\ request.identity = Swapped
    /\ td0 # <<>>
    /\ response.status = HTTP_422_UNPROCESSABLE_ENTITY
    /\ calls = <<>>

(***************************************************************************)
(* C20.  After any sequence of create, replace, patch and delete requests,  *)
(* single or bulk, the store lists at most one record under an identity.    *)
(* No create handler asks whether the identity is contained, and            *)
(* MockBackend.create extends its lists with whatever it is given.          *)
(***************************************************************************)
C20_OneRecordPerIdentity ==
    \A i, j \in 1..Len(uris) : i # j => uris[i] # uris[j]

\* the Store.update calls of the request in hand that raised
FailedUpdates ==
    {k \in 1..Len(calls) : calls[k].op = "update" /\ calls[k].ids[1] = request.fault.failId}

\* the updates of the identity that the Store applied, in the order of the calls
AppliedUpdates(identity) ==
    SelectSeq(calls, LAMBDA c : /\ c.op = "update"
                                /\ c.ids[1] = identity
                                /\ c.ids[1] # request.fault.failId)

\* the documents Store.create was given
CreatedDocs == IF CallsOf("create") = <<>> THEN <<>> ELSE CallsOf("create")[1].docs

(***************************************************************************)
(* C21.  When Store.update raises for a contained document of a bulk PUT,   *)
(* that update is the last call the request makes on the Store, the answer  *)
(* is the one write failure (502), and the store holds what was applied     *)
(* before: the created documents at its end, and under each identity that   *)
(* was updated before the failure the document of its last update; every    *)
(* other record is as it was.                                               *)
(***************************************************************************)
C21_ReplaceStopsAtFailedUpdate ==
    ( /\ Replied("update_entities")
      /\ FailedUpdates # {} )
    => /\ response.status = HTTP_502_BAD_GATEWAY
       /\ response.body = NoBody
       /\ FailedUpdates = {Len(calls)}
       /\ Len(CallsOf("create")) <= 1
       /\ td = [i \in 1..Len(td0) |->
                   IF AppliedUpdates(uris0[i]) # <<>> /\ i = IndexOf(uris0, uris0[i])
                   THEN AppliedUpdates(uris0[i])[Len(AppliedUpdates(uris0[i]))].docs[1]
                   ELSE td0[i]]
               \o CreatedDocs
       /\ uris = uris0 \o [k \in 1..Len(CreatedDocs) |-> get_uri(CreatedDocs[k])]

\* a batch of a new document and two contained ones, with the Store failing
\* on the second update: the created document and the first update remain
C21_Witness ==
    /\ Replied("update_entities")
    /\ td0 = <<StoredI1, StoredI2>>
    /\ request.entities = <<ByUri(I1B, PropsMap), ByUri(I1, PropsList), ByUri(I2, PropsMap)>>
    /\ request.fault.failId = I2
    /\ response.status = HTTP_502_BAD_GATEWAY
    /\ td = <<[uri |-> I1, properties |-> PropsList], StoredI2,
              [uri |-> I1B, properties |-> PropsMap]>>

\* the same batch with the Store failing on the first update: the second
\* contained document is not updated
C21_WitnessStops ==
    /\ Replied("update_entities")
    /\ td0 = <<StoredI1, StoredI2>>
    /\ request.entities = <<ByUri(I1B, PropsMap), ByUri(I1, PropsList), ByUri(I2, PropsMap)>>
    /\ request.fault.failId = I1
    /\ Len(CallsOf("update")) = 1
    /\ td = <<StoredI1, StoredI2, [uri |-> I1B, properties |-> PropsMap]>>

\* request p of the two concurrent requests has been answered
Answered(p) == phase = "concurrent" /\ response[p].pc = "done"

(***************************************************************************)
(* C22.  A bulk PATCH or PUT that reports success beside a concurrent bulk  *)
(* DELETE has, for every document of its batch, created it or updated a     *)
(* record with it.  Both handlers test `in entities_backend` and update     *)
(* later: when the DELETE falls between, MockBackend.update finds no record *)
(* and returns, and the PUT does not even call it.                          *)
(***************************************************************************)
C22_SuccessAppliedEveryDocument ==
    ( /\ Answered(1)
      /\ request[1].op \in {"patch_entities", "update_entities"}
      /\ request[2].op = "delete_entities"
      /\ Success(response[1].status) )
    => response[1].applied = 1..Len(request[1].entities)

\* the identities a bulk write names: those its documents derive, or those given
Named(req) ==
    IF req.op = "delete_entities"
    THEN DeleteIdentities(req.identities_body, req.identities_query)
    ELSE {get_uri(req.entities[k]) : k \in 1..Len(req.entities)}

\* the request handled alone, without another request between its Store calls
Alone(B, req) ==
    CASE req.op = "create_entities" -> create_entities(B, req.isList, req.entities, req.fault)
      [] req.op = "update_entities" -> update_entities(B, req.isList, req.entities, req.fault)
      [] req.op = "patch_entities" -> patch_entities(B, req.isList, req.entities, req.fault)
      [] OTHER -> delete_entities(B, req.identities_body, req.identities_query, req.fault)

\* the request p handled alone, and then the request q
Serial(p, q) ==
    LET first == Alone([td |-> td0, uris |-> uris0, calls |-> <<>>], request[p])
    IN  Alone([td |-> first.td, uris |-> first.uris, calls |-> <<>>], request[q])

\* the records the lists hold under the identity, in the order of the lists
RecordsUnder(records, listed, identity) ==
    LET at == {k \in 1..Len(listed) : listed[k] = identity}
        RECURSIVE From(_)
        From(k) == IF k > Len(listed) THEN <<>>
                   ELSE IF k \in at THEN <<records[k]>> \o From(k + 1) ELSE From(k + 1)
    IN  From(1)

(***************************************************************************)
(* C23.  When two bulk writes that name no identity in common have both     *)
(* been answered, each has the status and body it has when handled alone on *)
(* the store the two found, and under every identity the store holds the    *)
(* records it holds after the one request handled alone and then the other, *)
(* in either order.                                                         *)
(***************************************************************************)
C23_DisjointWritesAsSerial ==
    ( /\ Answered(1)
      /\ Answered(2)
      /\ Named(request[1]) \cap Named(request[2]) = {} )
    => /\ \A p \in {1, 2} :
             LET a == Alone([td |-> td0, uris |-> uris0, calls |-> <<>>], request[p])
             IN  response[p].status = a.status /\ response[p].body = a.body
       /\ \A identity \in Range(uris) \cup Range(uris0) \cup Named(request[1])
                           \cup Named(request[2]) :
             /\ RecordsUnder(td, uris, identity)
                  = RecordsUnder(Serial(1, 2).td, Serial(1, 2).uris, identity)
             /\ RecordsUnder(td, uris, identity)
                  = RecordsUnder(Serial(2, 1).td, Serial(2, 1).uris, identity)

\* the PATCH of I2 has been answered while the PUT beside it, which has
\* created I1B, has its update of I1 still before it
C23_WitnessInterleaved ==
    /\ Answered(2)
    /\ request[2].op = "patch_entities"
    /\ request[1].op = "update_entities"
    /\ response[1].pc = "loop"
    /\ td0 = <<StoredI1, StoredI2>>
    /\ td = <<StoredI1, [version |-> <<"2">>, uri |-> I2], [uri |-> I1B, properties |-> PropsMap]>>

\* a PUT that created I1B and updated I1 and a PATCH of I2 have both been
\* answered with success
C23_Witness ==
    /\ Answered(1)
    /\ Answered(2)
    /\ td0 = <<StoredI1, StoredI2>>
    /\ request[1].op = "update_entities"
    /\ request[1].entities = <<ByUri(I1, PropsList), ByUri(I1B, PropsMap)>>
    /\ request[2].op = "patch_entities"
    /\ response[1].status = HTTP_201_CREATED
    /\ response[2].status = HTTP_204_NO_CONTENT
    /\ td = <<[uri |-> I1, properties |-> PropsList], [version |-> <<"2">>, uri |-> I2],
              [uri |-> I1B, properties |-> PropsMap]>>

\* the identities a request names: the identity of its path, the identities
\* its documents derive, the identities of a bulk DELETE
NamedBy(req) ==
    (IF req.identity # <<>> THEN {req.identity} ELSE {})
    \cup {get_uri(req.entities[k]) : k \in 1..Len(req.entities)}
    \cup DeleteIdentities(req.identities_body, req.identities_query)

(***************************************************************************)
(* C24.  When a write request has been answered, with success or not, the   *)
(* records listed under every identity the request does not name are the    *)
(* records that were listed under it when the request arrived.              *)
(***************************************************************************)
C24_OnlyNamedIdentitiesChange ==
    ( /\ phase = "replied"
      /\ request.op \notin {"get_entity", "get_entities"} )
    => \A identity \in (Range(uris) \cup Range(uris0)) \ NamedBy(request) :
          RecordsUnder(td, uris, identity) = RecordsUnder(td0, uris0, identity)

\* a bulk DELETE of I1 took the record of I1 from a store that holds a record
\* of I2 too
C24_Witness ==
    /\ Replied("delete_entities")
    /\ NamedBy(request) = {I1}
    /\ uris0 = <<I2, I1>>
    /\ uris = <<I2>>
    /\ td = <<td0[1]>>

\* a bulk PUT that failed on its update of I2 after it had created I1: the
\* store has changed, no record of another identity has
C24_WitnessFailed ==
    /\ Replied("update_entities")
    /\ response.status = HTTP_502_BAD_GATEWAY
    /\ td # td0

=============================================================================
